---- MODULE Spec2Model ----
(***************************************************************************)
(* Route management of sstp-client (trunk/src/sstp-route.c): the netlink   *)
(* session (sstp_route_init/replace/delete/get/done with the receive loop  *)
(* sstp_route_recv), the message builder (sstp_route_newmsg/addattr), the  *)
(* response decoder inside sstp_route_get and the "ip route" shell         *)
(* fallback compiled when HAVE_NETLINK is not defined.                     *)
(*                                                                         *)
(* The session buffer is modelled byte by byte (ctx->buf[1024]); netlink   *)
(* structures are read and written at their offsets, little endian.        *)
(***************************************************************************)
EXTENDS Integers, Sequences, FiniteSets, TLC

(*************************** bounds of the model ***************************)
\* requests a session may issue before the model stops issuing more
MaxSeq == 2
\* disturbances a run may see: short or failed sends, failed or timed out reads,
\* stray datagrams
MaxFaults == 1

(************************ constants of the program *************************)
BUFSZ == 1024
NLMSG_HDRLEN == 16
SIZEOF_RTMSG == 12
SIZEOF_RTATTR == 4
SIZEOF_OIF == 4
NLMSG_ERROR == 2
NLMSG_DONE == 3
NLM_F_REQUEST == 1
NLM_F_MULTI == 2
NLM_F_ACK == 4
NLM_F_REPLACE == 256
NLM_F_EXCL == 512
NLM_F_CREATE == 1024
RTM_NEWROUTE == 24
RTM_DELROUTE == 25
RTM_GETROUTE == 26
RTA_DST == 1
RTA_OIF == 4
RTA_GATEWAY == 5
RTA_PREFSRC == 7
RTA_TABLE == 15
RT_TABLE_MAIN == 254
RT_SCOPE_UNIVERSE == 0
RT_SCOPE_LINK == 253
RTPROT_BOOT == 3
RTN_UNICAST == 1
AF_INET == 2
AF_INET6 == 10
AF_PACKET == 17
EINTR == 4
EAGAIN == 11
EIO == 5
ESRCH == 3
ENOENT == 2
EEXIST == 17
ENETUNREACH == 101
\* the value getpid() returns in this process
getpid == 77

(****************************** byte helpers *******************************)
\* a 16 bit value as two bytes, little endian
LE16(v) == <<v % 256, (v \div 256) % 256>>

\* a 32 bit two's complement value as four bytes, little endian
LE32(v) ==
    LET u == IF v < 0 THEN (v + 2147483647) + 1 ELSE v
    IN  <<u % 256, (u \div 256) % 256, (u \div 65536) % 256,
          ((u \div 16777216) % 128) + (IF v < 0 THEN 128 ELSE 0)>>

\* The buffer char buf[1024] is held as the sequence of its bytes up to the last
\* one written since it was last zeroed; the bytes beyond are zero.

\* the byte at offset o of buffer b
Peek(b, o) == IF o < Len(b) THEN b[o + 1] ELSE 0

\* the 16 bit value at offset o of buffer b
Rd16(b, o) == Peek(b, o) + 256 * Peek(b, o + 1)

\* the signed 32 bit value at offset o of buffer b
Rd32(b, o) ==
    LET low == Peek(b, o) + 256 * Peek(b, o + 1) + 65536 * Peek(b, o + 2)
        hi  == Peek(b, o + 3)
    IN  IF hi >= 128 THEN ((low + 16777216 * (hi - 128)) - 2147483647) - 1
        ELSE low + 16777216 * hi

\* memset(buf, 0, sizeof(buf))
ZeroBuf == << >>

Zeros(n) == [k \in 1 .. n |-> 0]

\* memcpy(b + off, bytes, Len(bytes))
Store(b, off, bytes) ==
    LET head == IF Len(b) >= off THEN SubSeq(b, 1, off)
                ELSE b \o Zeros(off - Len(b))
        tail == SubSeq(b, off + Len(bytes) + 1, Len(b))
    IN  head \o bytes \o tail

\* the n bytes of b from offset off, as a sequence
Load(b, off, n) == [k \in 1 .. n |-> Peek(b, off + (k - 1))]

\* flag f (a power of two) is set in bit mask m
HasFlag(m, f) == (m \div f) % 2 = 1

(***************************** netlink macros ******************************)
NLMSG_ALIGN(n) == ((n + 3) \div 4) * 4
NLMSG_LENGTH(n) == n + NLMSG_HDRLEN
NLMSG_SPACE(n) == NLMSG_ALIGN(NLMSG_LENGTH(n))
RTA_ALIGN(n) == ((n + 3) \div 4) * 4
RTA_LENGTH(n) == RTA_ALIGN(SIZEOF_RTATTR) + n
RTA_SPACE(n) == RTA_ALIGN(RTA_LENGTH(n))

\* struct nlmsghdr at the start of the buffer (nlh = (struct nlmsghdr*) ctx->buf)
nlmsg_len(b) == Rd32(b, 0)
nlmsg_type(b) == Rd16(b, 4)
nlmsg_flags(b) == Rd16(b, 6)
nlmsg_seq(b) == Rd32(b, 8)
nlmsg_pid(b) == Rd32(b, 12)

\* struct rtmsg at NLMSG_DATA(nlh)
rtm_family(b) == Peek(b, NLMSG_HDRLEN)
rtm_dst_len(b) == Peek(b, NLMSG_HDRLEN + 1)
rtm_src_len(b) == Peek(b, NLMSG_HDRLEN + 2)
rtm_table(b) == Peek(b, NLMSG_HDRLEN + 4)
rtm_protocol(b) == Peek(b, NLMSG_HDRLEN + 5)
rtm_scope(b) == Peek(b, NLMSG_HDRLEN + 6)
rtm_type(b) == Peek(b, NLMSG_HDRLEN + 7)

\* struct nlmsgerr at NLMSG_DATA(nlh): its first field, the error code
nlmsgerr_error(b) == Rd32(b, NLMSG_HDRLEN)

NLMSG_OK(b, len) ==
    /\ len >= NLMSG_HDRLEN
    /\ nlmsg_len(b) >= NLMSG_HDRLEN
    /\ nlmsg_len(b) <= len

\* RTM_RTA(rtm): offset of the first attribute; RTM_PAYLOAD(nlh): bytes of attributes
RTM_RTA == NLMSG_HDRLEN + NLMSG_ALIGN(SIZEOF_RTMSG)
RTM_PAYLOAD(b) == nlmsg_len(b) - NLMSG_SPACE(SIZEOF_RTMSG)

\* struct rtattr at offset o
rta_len(b, o) == Rd16(b, o)
rta_type(b, o) == Rd16(b, o + 2)
RTA_DATA(o) == o + RTA_LENGTH(0)
RTA_PAYLOAD(b, o) == rta_len(b, o) - RTA_LENGTH(0)
RTA_OK(b, o, rtl) ==
    /\ rtl >= SIZEOF_RTATTR
    /\ rta_len(b, o) >= SIZEOF_RTATTR
    /\ rta_len(b, o) <= rtl

RTA_NEXT_off(b, o) == o + RTA_ALIGN(rta_len(b, o))
RTA_NEXT_len(b, o, rtl) == rtl - RTA_ALIGN(rta_len(b, o))

(********************************* routes **********************************)
\* the address width of a family, as the callers of this module set rt_blen
BLen(fam) == IF fam = AF_INET6 THEN 16 ELSE 4

Addr4(k) == <<10, 0, 0, k>>
Addr6(k) == <<32, 1, 13, 184, 0, 0, 0, 0, 0, 0, 0, 0, 0, 0, 0, k>>
Addr(fam, k) == IF fam = AF_INET6 THEN Addr6(k) ELSE Addr4(k)
NoAddr == << >>

Have(d, s, g, o) == [dst |-> d, src |-> s, gwy |-> g, oif |-> o]

\* sstp_route_st: the fields the netlink backend uses, and ipcmd, the one field
\* of the shell fallback
Route(fam, dst, src, gwy, oif, have) ==
    [family |-> fam, rt_blen |-> BLen(fam), dst |-> dst, src |-> src,
     gwy |-> gwy, oif |-> oif, ifname |-> "", have |-> have, ipcmd |-> ""]

\* memset(route, 0, sizeof(sstp_route_st)) with family and rt_blen set
ClearedRoute(fam) == Route(fam, NoAddr, NoAddr, NoAddr, 0, Have(0, 0, 0, 0))

\* the caller's route variable before any get has written it
UnsetRoute == [ClearedRoute(0) EXCEPT !.rt_blen = 0]

(***************************** message builder *****************************)
\* an sstp_route_addattr that stores the payload length as rta_len, not
\* RTA_LENGTH(len)
AddattrPayloadLen(b, type, len, value) ==
    LET rta == NLMSG_ALIGN(nlmsg_len(b))
        b1  == Store(b, rta + 2, LE16(type))
        b2  == Store(b1, rta, LE16(len))
        b3  == Store(b2, 0, LE32(NLMSG_ALIGN(nlmsg_len(b)) + RTA_SPACE(len)))
    IN  Store(b3, RTA_DATA(rta), SubSeq(value, 1, len))

\* sstp_route_addattr: append attribute (type, value) of len bytes at NLMSG_TAIL
sstp_route_addattr(b, type, len, value) ==
    LET rta == NLMSG_ALIGN(nlmsg_len(b))
        b1  == Store(b, rta + 2, LE16(type))
        b2  == Store(b1, rta, LE16(RTA_LENGTH(len)))
        b3  == Store(b2, 0, LE32(NLMSG_ALIGN(nlmsg_len(b)) + RTA_SPACE(len)))
    IN  Store(b3, RTA_DATA(rta), SubSeq(value, 1, len))

\* a struct rtmsg with rtm_scope stored before rtm_protocol
RtmBytesScopeFirst(family, dst_len, src_len, table, protocol, scope, type) ==
    <<family, dst_len, src_len, 0, table, scope, protocol, type>> \o LE32(0)

\* struct rtmsg as bytes: family, dst_len, src_len, tos, table, protocol, scope,
\* type, flags
RtmBytes(family, dst_len, src_len, table, protocol, scope, type) ==
    <<family, dst_len, src_len, 0, table, protocol, scope, type>> \o LE32(0)

\* struct nlmsghdr as bytes
NlhBytes(len, type, flags, seq, pid) ==
    LE32(len) \o LE16(type) \o LE16(flags) \o LE32(seq) \o LE32(pid)

\* the flags word sstp_route_newmsg writes
NewmsgFlags(flags) == NLM_F_REQUEST + NLM_F_ACK + flags

\* sstp_route_newmsg: the session after building the request for cmd
sstp_route_newmsg(c, route, cmd, flags) ==
    LET seq == c.seq + 1
        b0  == Store(ZeroBuf, 0,
                     NlhBytes(NLMSG_LENGTH(SIZEOF_RTMSG), cmd, NewmsgFlags(flags),
                              seq, getpid))
        b1  == Store(b0, NLMSG_HDRLEN,
                     RtmBytes(route.family, 0, 0, RT_TABLE_MAIN,
                              IF cmd # RTM_DELROUTE THEN RTPROT_BOOT ELSE 0,
                              IF route.have.gwy = 1 THEN RT_SCOPE_UNIVERSE
                                                    ELSE RT_SCOPE_LINK,
                              IF cmd # RTM_DELROUTE THEN RTN_UNICAST ELSE 0))
        b2  == IF route.have.dst = 1
               THEN Store(sstp_route_addattr(b1, RTA_DST, route.rt_blen, route.dst),
                          NLMSG_HDRLEN + 1, <<(route.rt_blen * 8) % 256>>)
               ELSE b1
        b3  == IF route.have.src = 1
               THEN Store(sstp_route_addattr(b2, RTA_PREFSRC, route.rt_blen, route.src),
                          NLMSG_HDRLEN + 2, <<(route.rt_blen * 8) % 256>>)
               ELSE b2
        b4  == IF route.have.gwy = 1
               THEN sstp_route_addattr(b3, RTA_GATEWAY, route.rt_blen, route.gwy)
               ELSE b3
        b5  == IF route.have.oif = 1
               THEN sstp_route_addattr(b4, RTA_OIF, SIZEOF_OIF, LE32(route.oif))
               ELSE b4
    IN  [c EXCEPT !.seq = seq, !.buf = b5]

\* an sstp_route_get that reuses the sequence number of the request before
GetNewmsgSameSeq(c, dst) ==
    LET seq == c.seq
        b0  == Store(ZeroBuf, 0,
                     NlhBytes(NLMSG_LENGTH(SIZEOF_RTMSG), RTM_GETROUTE, NLM_F_REQUEST,
                              seq, getpid))
        b1  == Store(b0, NLMSG_HDRLEN,
                     RtmBytes(dst.sa_family, 0, 0, RT_TABLE_MAIN, 0, 0, 0))
        b2  == CASE dst.sa_family = AF_INET ->
                      Store(sstp_route_addattr(b1, RTA_DST, 4, dst.addr),
                            NLMSG_HDRLEN + 1, <<32>>)
                 [] dst.sa_family = AF_INET6 ->
                      Store(sstp_route_addattr(b1, RTA_DST, 16, dst.addr),
                            NLMSG_HDRLEN + 1, <<128>>)
                 [] OTHER -> b1
    IN  [c EXCEPT !.seq = seq, !.buf = b2]

\* the request sstp_route_get builds for destination dst = [sa_family, addr]
sstp_route_get_newmsg(c, dst) ==
    LET seq == c.seq + 1
        b0  == Store(ZeroBuf, 0,
                     NlhBytes(NLMSG_LENGTH(SIZEOF_RTMSG), RTM_GETROUTE, NLM_F_REQUEST,
                              seq, getpid))
        b1  == Store(b0, NLMSG_HDRLEN,
                     RtmBytes(dst.sa_family, 0, 0, RT_TABLE_MAIN, 0, 0, 0))
        b2  == CASE dst.sa_family = AF_INET ->
                      Store(sstp_route_addattr(b1, RTA_DST, 4, dst.addr),
                            NLMSG_HDRLEN + 1, <<32>>)
                 [] dst.sa_family = AF_INET6 ->
                      Store(sstp_route_addattr(b1, RTA_DST, 16, dst.addr),
                            NLMSG_HDRLEN + 1, <<128>>)
                 [] OTHER -> b1
    IN  [c EXCEPT !.seq = seq, !.buf = b2]

(**************************** attribute walking ****************************)
\* the attributes of the message in b, in order, each with its type, the offset of
\* its payload and the payload: the walk RTA_OK / RTA_NEXT makes from offset o with rtl bytes left
RECURSIVE Attrs(_, _, _)
Attrs(b, o, rtl) ==
    IF RTA_OK(b, o, rtl)
    THEN <<[type |-> rta_type(b, o), off |-> RTA_DATA(o),
            data |-> Load(b, RTA_DATA(o), RTA_PAYLOAD(b, o))]>>
         \o Attrs(b, RTA_NEXT_off(b, o), RTA_NEXT_len(b, o, rtl))
    ELSE << >>

MsgAttrs(b) == Attrs(b, RTM_RTA, RTM_PAYLOAD(b))

(***************************** receive loop ********************************)
\* a loop that retries an interrupted read only
TransientEintrOnly(eno) == eno = EINTR

\* line 85: the read failures the loop retries
Transient(eno) == eno = EAGAIN \/ eno = EINTR

\* a receive loop that lacks the test of lines 100-109
NoErrorTest(b) == FALSE

\* lines 100-109: an error frame that carries a non-zero code
IsKernelError(b) == nlmsg_type(b) = NLMSG_ERROR /\ nlmsgerr_error(b) # 0

\* lines 111-119: the message answers the request just sent
Correlated(b, c) == nlmsg_seq(b) = c.seq /\ nlmsg_pid(b) = getpid

\* lines 122-130: the message ends the response (break)
Terminal(b) == nlmsg_type(b) = NLMSG_DONE \/ ~HasFlag(nlmsg_flags(b), NLM_F_MULTI)

\* line 132: the condition of the do-while, also reached by every continue
LoopCond(c) == nlmsg_len(c.buf) > c.len

\* what one pass through the loop body decides: go round again, or return ret
Again(c, eno) == [c |-> c, more |-> TRUE, ret |-> 0, errno |-> eno]
Return(c, ret, eno) == [c |-> c, more |-> FALSE, ret |-> ret, errno |-> eno]

\* a continue statement: the loop condition decides; leaving the loop returns ctx->len
Continue(c, eno) == IF LoopCond(c) THEN Again(c, eno) ELSE Return(c, c.len, eno)

\* a recv that is given no limit
RecvLenUncapped(c, dgram) == Len(dgram)

\* recv(ctx->sock, ctx->buf + ctx->len, sizeof(ctx->buf) - ctx->len, 0) of a
\* datagram: the bytes stored, cut to the room left
RecvLen(c, dgram) == IF Len(dgram) <= BUFSZ - c.len THEN Len(dgram) ELSE BUFSZ - c.len
RecvBuf(c, dgram) == Store(c.buf, c.len, SubSeq(dgram, 1, RecvLen(c, dgram)))

\* one pass through the body of the loop of sstp_route_recv. len is what recv
\* returned, eno the errno it left, and c.buf already holds the bytes it stored
sstp_route_recv_pass(c, len, eno, eno0) ==
    IF len = -1
    THEN IF Transient(eno) THEN Continue(c, eno) ELSE Return(c, -1, eno)
    ELSE IF len = 0 THEN Return(c, -1, eno0)
    ELSE IF ~NLMSG_OK(c.buf, len) THEN Return(c, -1, eno0)
    ELSE IF IsKernelError(c.buf) THEN Return(c, -1, -nlmsgerr_error(c.buf))
    ELSE IF ~Correlated(c.buf, c) THEN Continue(c, eno0)
    ELSE LET c1 == [c EXCEPT !.len = len]
         IN  IF Terminal(c1.buf) THEN Return(c1, c1.len, eno0)
             ELSE Continue(c1, eno0)

(**************************** response decoder *****************************)
\* an int after memcpy(&i, data, n) over a zeroed int
IntOf(data) == Rd32(SubSeq(data, 1, IF Len(data) < 4 THEN Len(data) ELSE 4), 0)

\* if_indextoname: the name of interface idx, "" when the lookup fails (ok is
\* whether the system resolves names at this moment)
if_indextoname(ok, idx) ==
    IF ok /\ idx = 2 THEN "eth0" ELSE IF ok /\ idx = 3 THEN "ppp0" ELSE ""

\* a switch whose default case starts the route over
DecodeResetsOnUnknown(route, b, a, resolve) ==
    CASE a.type = RTA_OIF ->
           LET name == if_indextoname(resolve, Rd32(b, a.off))
           IN  [route EXCEPT !.ifname = IF name # "" THEN name ELSE @,
                             !.oif = IntOf(a.data), !.have.oif = 1]
      [] a.type = RTA_GATEWAY -> [route EXCEPT !.gwy = a.data, !.have.gwy = 1]
      [] a.type = RTA_PREFSRC -> [route EXCEPT !.src = a.data, !.have.src = 1]
      [] a.type = RTA_DST -> [route EXCEPT !.dst = a.data, !.have.dst = 1]
      [] OTHER -> ClearedRoute(route.family)

\* the switch of sstp_route_get for one attribute a of the message in b; a
\* failed if_indextoname leaves ifname as it was
DecodeAttr(route, b, a, resolve) ==
    CASE a.type = RTA_OIF ->
           LET name == if_indextoname(resolve, Rd32(b, a.off))
           IN  [route EXCEPT !.ifname = IF name # "" THEN name ELSE @,
                             !.oif = IntOf(a.data), !.have.oif = 1]
      [] a.type = RTA_GATEWAY -> [route EXCEPT !.gwy = a.data, !.have.gwy = 1]
      [] a.type = RTA_PREFSRC -> [route EXCEPT !.src = a.data, !.have.src = 1]
      [] a.type = RTA_DST -> [route EXCEPT !.dst = a.data, !.have.dst = 1]
      [] OTHER -> route

\* the for loop of sstp_route_get over attributes as[i..]
RECURSIVE DecodeFrom(_, _, _, _, _)
DecodeFrom(route, b, as, i, resolve) ==
    IF i > Len(as) THEN route
    ELSE DecodeFrom(DecodeAttr(route, b, as[i], resolve), b, as, i + 1, resolve)

\* an sstp_route_get that prepares the output before it tests the family
GetDecodeClearsFirst(c, len, route, resolve) ==
    IF len < 0 THEN [ret |-> -1, route |-> route]
    ELSE IF ~NLMSG_OK(c.buf, len) THEN [ret |-> -1, route |-> route]
    ELSE IF rtm_family(c.buf) # AF_INET /\ rtm_family(c.buf) # AF_INET6
    THEN [ret |-> -1, route |-> ClearedRoute(rtm_family(c.buf))]
    ELSE [ret |-> 0,
          route |-> DecodeFrom(ClearedRoute(rtm_family(c.buf)), c.buf,
                               MsgAttrs(c.buf), 1, resolve)]

\* sstp_route_get from the return of sstp_route_talk (len) on: the value returned
\* and the caller's route afterwards
sstp_route_get_decode(c, len, route, resolve) ==
    IF len < 0 THEN [ret |-> -1, route |-> route]
    ELSE IF ~NLMSG_OK(c.buf, len) THEN [ret |-> -1, route |-> route]
    ELSE IF rtm_family(c.buf) # AF_INET /\ rtm_family(c.buf) # AF_INET6
    THEN [ret |-> -1, route |-> route]
    ELSE [ret |-> 0,
          route |-> DecodeFrom(ClearedRoute(rtm_family(c.buf)), c.buf,
                               MsgAttrs(c.buf), 1, resolve)]

\* an operation that ignores what sstp_route_talk returned
ResultIgnored(len) == 0

\* sstp_route_replace and sstp_route_delete from the return of sstp_route_talk on
sstp_route_result(len) == IF len < 0 THEN -1 ELSE 0

\* create-only flags: the request fails when the route exists
CreateExclusive == NLM_F_CREATE + NLM_F_EXCL

\* the flags sstp_route_replace passes to sstp_route_newmsg
ReplaceFlags == NLM_F_CREATE + NLM_F_REPLACE

(************************ the kernel (environment) *************************)
\* a route as the kernel's table holds it
KRoute(fam, dst, src, gwy, oif, have) ==
    [family |-> fam, dst |-> dst, src |-> src, gwy |-> gwy, oif |-> oif,
     have |-> have]

\* the table entry a caller's route describes
KR(r) == KRoute(r.family, r.dst, r.src, r.gwy, r.oif, r.have)

HasAttr(as, t) == \E i \in 1 .. Len(as) : as[i].type = t
AttrData(as, t) == as[CHOOSE i \in 1 .. Len(as) : as[i].type = t].data
AddrAttr(as, t) == IF HasAttr(as, t) THEN AttrData(as, t) ELSE NoAddr
Flag(p) == IF p THEN 1 ELSE 0

\* the route a request message describes, as the kernel parses it
KRouteOfMsg(b) ==
    LET as == MsgAttrs(b)
    IN  KRoute(rtm_family(b), AddrAttr(as, RTA_DST), AddrAttr(as, RTA_PREFSRC),
               AddrAttr(as, RTA_GATEWAY),
               IF HasAttr(as, RTA_OIF) THEN IntOf(AttrData(as, RTA_OIF)) ELSE 0,
               Have(Flag(HasAttr(as, RTA_DST)), Flag(HasAttr(as, RTA_PREFSRC)),
                    Flag(HasAttr(as, RTA_GATEWAY)), Flag(HasAttr(as, RTA_OIF))))

\* the entries of table t for the destination of r
SameDst(t, r) == {e \in t : e.family = r.family /\ e.dst = r.dst}

\* the entries of table t a delete request for r matches
Matching(t, r) ==
    {e \in SameDst(t, r) :
        /\ r.have.gwy = 1 => (e.have.gwy = 1 /\ e.gwy = r.gwy)
        /\ r.have.src = 1 => (e.have.src = 1 /\ e.src = r.src)
        /\ r.have.oif = 1 => (e.have.oif = 1 /\ e.oif = r.oif)}

\* what the kernel does with a request of the given type and flags for route r:
\* the table afterwards, the error code (0: done) and, for a get, the entry found
KernelApply(t, type, flags, r) ==
    LET same  == SameDst(t, r)
        none  == KR(UnsetRoute)
    IN  CASE type = RTM_NEWROUTE ->
               IF same # {}
               THEN IF HasFlag(flags, NLM_F_EXCL) \/ ~HasFlag(flags, NLM_F_REPLACE)
                    THEN [table |-> t, code |-> EEXIST, entry |-> none]
                    ELSE [table |-> (t \ same) \cup {r}, code |-> 0, entry |-> none]
               ELSE IF HasFlag(flags, NLM_F_CREATE)
                    THEN [table |-> t \cup {r}, code |-> 0, entry |-> none]
                    ELSE [table |-> t, code |-> ENOENT, entry |-> none]
          [] type = RTM_DELROUTE ->
               IF Matching(t, r) = {}
               THEN [table |-> t, code |-> ESRCH, entry |-> none]
               ELSE [table |-> t \ Matching(t, r), code |-> 0, entry |-> none]
          [] type = RTM_GETROUTE ->
               IF same = {}
               THEN [table |-> t, code |-> ENETUNREACH, entry |-> none]
               ELSE [table |-> t, code |-> 0, entry |-> CHOOSE e \in same : TRUE]
          [] OTHER -> [table |-> t, code |-> EIO, entry |-> none]

KernelRequest(t, b) ==
    KernelApply(t, nlmsg_type(b), nlmsg_flags(b), KRouteOfMsg(b))

\* what the environment knows of a datagram it queued
Meta(role, type, seq, pid, code, multi, order) ==
    [role |-> role, type |-> type, seq |-> seq, pid |-> pid, code |-> code,
     multi |-> multi, order |-> order]
NoMeta == Meta("none", 0, 0, 0, 0, FALSE, << >>)

\* an error frame: header, the negated code, the header of the request
ErrorFrame(role, seq, pid, code, reqhdr) ==
    [bytes |-> NlhBytes(NLMSG_LENGTH(4 + NLMSG_HDRLEN), NLMSG_ERROR, 0, seq, pid)
               \o LE32(0 - code) \o reqhdr,
     meta  |-> Meta(role, NLMSG_ERROR, seq, pid, code, FALSE, << >>)]

Pad(n) == [k \in 1 .. (RTA_ALIGN(n) - n) |-> 0]
AttrBytes(type, data) ==
    LE16(RTA_LENGTH(Len(data))) \o LE16(type) \o data \o Pad(Len(data))

\* the payload the kernel sends for attribute type t of entry e
EntryAttr(e, t) ==
    CASE t = RTA_DST -> e.dst
      [] t = RTA_PREFSRC -> e.src
      [] t = RTA_GATEWAY -> e.gwy
      [] t = RTA_OIF -> LE32(e.oif)
      [] OTHER -> LE32(RT_TABLE_MAIN)

RECURSIVE AttrsBytes(_, _, _)
AttrsBytes(e, order, i) ==
    IF i > Len(order) THEN << >>
    ELSE AttrBytes(order[i], EntryAttr(e, order[i])) \o AttrsBytes(e, order, i + 1)

\* a route message for entry e with its attributes in the given order
RouteFrame(role, seq, pid, e, order, multi) ==
    LET body == RtmBytes(e.family, BLen(e.family) * 8, 0, RT_TABLE_MAIN, RTPROT_BOOT,
                         IF e.have.gwy = 1 THEN RT_SCOPE_UNIVERSE ELSE RT_SCOPE_LINK,
                         RTN_UNICAST)
                \o AttrsBytes(e, order, 1)
    IN  [bytes |-> NlhBytes(NLMSG_LENGTH(Len(body)), RTM_NEWROUTE,
                            IF multi THEN NLM_F_MULTI ELSE 0, seq, pid) \o body,
         meta  |-> Meta(role, RTM_NEWROUTE, seq, pid, 0, multi, order)]

\* the message that ends a multi-part series
DoneFrame(seq, pid) ==
    [bytes |-> NlhBytes(NLMSG_LENGTH(4), NLMSG_DONE, NLM_F_MULTI, seq, pid) \o LE32(0),
     meta  |-> Meta("done", NLMSG_DONE, seq, pid, 0, TRUE, << >>)]

\* the attribute types entry e has
Present(e) ==
    {t \in {RTA_DST, RTA_PREFSRC, RTA_GATEWAY, RTA_OIF} :
        \/ t = RTA_DST /\ e.have.dst = 1
        \/ t = RTA_PREFSRC /\ e.have.src = 1
        \/ t = RTA_GATEWAY /\ e.have.gwy = 1
        \/ t = RTA_OIF /\ e.have.oif = 1}

\* every order of the elements of S
RECURSIVE Perms(_)
Perms(S) ==
    IF S = {} THEN {<< >>}
    ELSE UNION {{<<x>> \o p : p \in Perms(S \ {x})} : x \in S}

\* the order Linux writes the attributes of a route in
RECURSIVE Filter(_, _, _)
Filter(order, S, i) ==
    IF i > Len(order) THEN << >>
    ELSE (IF order[i] \in S THEN <<order[i]>> ELSE << >>) \o Filter(order, S, i + 1)
LinuxOrder(e) ==
    Filter(<<RTA_TABLE, RTA_DST, RTA_OIF, RTA_PREFSRC, RTA_GATEWAY>>,
           Present(e) \cup {RTA_TABLE}, 1)

\* the attribute orders a response for e may come in, by environment: Linux's
\* order, or for "any" a kernel that sends the attributes in any order, with or
\* without an attribute type the decoder does not know at any place among them
Orders(e, env) ==
    IF env = "any" THEN Perms(Present(e)) \cup Perms(Present(e) \cup {RTA_TABLE})
    ELSE {LinuxOrder(e)}

\* route messages a decoder must be ready for, for entry e: an attribute whose
\* rta_len is smaller than its header ("short") or larger than what is left of
\* the message ("long"), a well-framed gateway of the other family's width
\* ("wide"), a family that is neither AF_INET nor AF_INET6 ("family")
OddKinds == {"short", "long", "wide", "family"}

OddFrame(seq, pid, e, kind) ==
    LET other == IF e.family = AF_INET6 THEN AF_INET ELSE AF_INET6
        oif   == LE16(RTA_OIF) \o LE32(e.oif)
        attrs == CASE kind = "short" -> AttrBytes(RTA_DST, e.dst) \o LE16(2) \o oif
                   [] kind = "long" -> AttrBytes(RTA_DST, e.dst) \o LE16(200) \o oif
                   [] kind = "wide" -> AttrBytes(RTA_DST, e.dst)
                                       \o AttrBytes(RTA_GATEWAY, Addr(other, 3))
                   [] OTHER -> AttrsBytes(e, LinuxOrder(e), 1)
        body  == RtmBytes(IF kind = "family" THEN AF_PACKET ELSE e.family,
                          BLen(e.family) * 8, 0, RT_TABLE_MAIN, RTPROT_BOOT,
                          RT_SCOPE_UNIVERSE, RTN_UNICAST) \o attrs
    IN  [bytes |-> NlhBytes(NLMSG_LENGTH(Len(body)), RTM_NEWROUTE, 0, seq, pid) \o body,
         meta  |-> Meta("reply", RTM_NEWROUTE, seq, pid, 0, FALSE, << >>)]

\* the datagrams the kernel queues in answer to the request in b: one choice of
\* the set. A simulated kernel may also send a route as a multi-part series
KernelReplies(t, b, env) ==
    LET k   == KernelRequest(t, b)
        seq == nlmsg_seq(b)
        pid == nlmsg_pid(b)
        hdr == Load(b, 0, NLMSG_HDRLEN)
    IN  IF k.code # 0 THEN {<<ErrorFrame("reply", seq, pid, k.code, hdr)>>}
        ELSE IF nlmsg_type(b) = RTM_GETROUTE
        THEN {<<RouteFrame("reply", seq, pid, k.entry, o, FALSE)>> :
                 o \in Orders(k.entry, env)}
             \cup (IF env = "sim"
                   THEN {<<RouteFrame("part", seq, pid, k.entry, LinuxOrder(k.entry),
                                      TRUE),
                           DoneFrame(seq, pid)>>}
                   ELSE {})
             \cup (IF env = "any"
                   THEN {<<OddFrame(seq, pid, k.entry, kind)>> : kind \in OddKinds}
                   ELSE {})
        ELSE IF HasFlag(nlmsg_flags(b), NLM_F_ACK)
        THEN {<<ErrorFrame("reply", seq, pid, 0, hdr)>>}
        ELSE {<< >>}

(******************************** the state ********************************)
VARIABLES
    backend,    \* "netlink" when HAVE_NETLINK is defined, "shell" otherwise
    handle,     \* the caller's sstp_route_ctx_st*: "NULL", "live" or "freed"
    ctx,        \* struct sstp_route_ctx: sock, seq, len, buf
    fdt,        \* the descriptor socket() gave: fd, open, closes (close calls on
                \* it), other (close calls on descriptors that are not it)
    uaf,        \* the memory of a freed session has been read or freed again
    pc,         \* "idle", or "recv": inside the loop of sstp_route_recv
    call,       \* the operation called last: op, arg, ret, len, done
    errno,      \* errno as the operation called last left it, 0 if it stored none
    out,        \* the caller's sstp_route_st that sstp_route_get fills
    rtable,     \* the kernel's routing table
    sockq,      \* datagrams queued on the socket, each with what the sender knows
    rx,         \* the last pass of the receive loop: io, meta, more, ret, named
                \* (whether if_indextoname resolved names during it)
    pre,        \* the routing table when the operation was called
    faults,     \* disturbances so far
    hist,       \* with a faithful kernel: the operations completed, in order
    sent        \* nlmsg_seq of the requests the session has built, in order

vars == <<backend, handle, ctx, fdt, uaf, pc, call, errno, out, rtable, sockq, rx,
          pre, faults, hist, sent>>

RA == Route(AF_INET, Addr4(1), Addr4(2), Addr4(3), 2, Have(1, 1, 1, 1))
RA2 == Route(AF_INET, Addr4(1), Addr4(2), Addr4(4), 2, Have(1, 1, 1, 1))
RB == Route(AF_INET, Addr4(9), NoAddr, NoAddr, 3, Have(1, 0, 0, 1))
RC == Route(AF_INET6, Addr6(1), NoAddr, NoAddr, 3, Have(1, 0, 0, 1))
\* the routes callers pass to replace and delete
Routes == {RA, RA2, RC}
\* and those they pass when the kernel is simulated
SimRoutes == {RA, RC}

SockAddr(fam, addr) == [sa_family |-> fam, addr |-> addr]
\* the destinations callers pass to get
Dsts == {SockAddr(AF_INET, Addr4(1)), SockAddr(AF_INET6, Addr6(1))}
DstRoute(d) == Route(d.sa_family, d.addr, NoAddr, NoAddr, 0, Have(1, 0, 0, 0))

\* the routing table a run starts from
InitTable == {KR(RA)}

\* the descriptors socket() may return, -1 for failure
SocketResults == {-1, 0, 3}
\* the values a read of ctx->sock in freed memory may give
FreedReads == {0, 3, 5}

NoCtx == [sock |-> -1, seq |-> 0, len |-> 0, buf |-> ZeroBuf]
NoFd == [fd |-> -1, open |-> FALSE, closes |-> 0, other |-> 0]
Call(op, arg, ret, len, done) ==
    [op |-> op, arg |-> arg, ret |-> ret, len |-> len, done |-> done]
NoCall == Call("none", UnsetRoute, 0, 0, FALSE)
Rx(io, meta, more, ret, named) ==
    [io |-> io, meta |-> meta, more |-> more, ret |-> ret, named |-> named]
NoRx == Rx("none", NoMeta, FALSE, 0, TRUE)

InitCommon ==
    /\ handle = "NULL"
    /\ ctx = NoCtx
    /\ fdt = NoFd
    /\ uaf = FALSE
    /\ pc = "idle"
    /\ call = NoCall
    /\ errno = 0
    /\ out = UnsetRoute
    /\ rtable = InitTable
    /\ sockq = << >>
    /\ rx = NoRx
    /\ pre = {}
    /\ faults = 0
    /\ hist = << >>
    /\ sent = << >>

Init == backend = "netlink" /\ InitCommon

(************************* init and done (netlink) *************************)
\* sstp_route_init: nomem is whether calloc fails, res what socket() returns
sstp_route_init(nomem, res) ==
    IF nomem THEN [ret |-> -1, handle |-> handle, ctx |-> ctx, fdt |-> fdt]
    ELSE IF res < 0 THEN [ret |-> -1, handle |-> handle, ctx |-> ctx, fdt |-> fdt]
    ELSE [ret |-> 0, handle |-> "live",
          ctx |-> [sock |-> res, seq |-> 0, len |-> 0, buf |-> ZeroBuf],
          fdt |-> [fd |-> res, open |-> TRUE, closes |-> 0, other |-> 0]]

\* close(fd) as the descriptor table sees it
Close(f, fd) ==
    IF fd = f.fd THEN [f EXCEPT !.open = FALSE, !.closes = @ + 1]
    ELSE [f EXCEPT !.other = @ + 1]

\* line 453: the session holds a descriptor to close
SockToClose(sock) == sock > 0

\* sstp_route_done(ctx) for handle h pointing at session c; stale is what a read
\* of ctx->sock gives when the session was freed before
sstp_route_done(h, c, f, u, stale) ==
    IF h = "NULL" THEN [handle |-> h, ctx |-> c, fdt |-> f, uaf |-> u]
    ELSE IF h = "live"
    THEN [handle |-> "freed",
          ctx    |-> IF SockToClose(c.sock) THEN [c EXCEPT !.sock = 0] ELSE c,
          fdt    |-> IF SockToClose(c.sock) THEN Close(f, c.sock) ELSE f,
          uaf    |-> u]
    ELSE [handle |-> "freed", ctx |-> c,
          fdt    |-> IF SockToClose(stale) THEN Close(f, stale) ELSE f,
          uaf    |-> TRUE]

NlInit(nomem, res) ==
    /\ backend = "netlink" /\ pc = "idle" /\ handle = "NULL"
    /\ LET r == sstp_route_init(nomem, res)
       IN  /\ handle' = r.handle
           /\ ctx' = r.ctx
           /\ fdt' = r.fdt
           /\ call' = Call("init", UnsetRoute, r.ret, 0, TRUE)
    /\ UNCHANGED <<sent, backend, uaf, pc, errno, out, rtable, sockq, rx, pre, faults, hist>>

NlDone(stale) ==
    /\ backend = "netlink" /\ pc = "idle" /\ ~uaf
    /\ LET r == sstp_route_done(handle, ctx, fdt, uaf, stale)
       IN  /\ handle' = r.handle
           /\ ctx' = r.ctx
           /\ fdt' = r.fdt
           /\ uaf' = r.uaf
           /\ call' = Call("done", UnsetRoute, 0, 0, TRUE)
    /\ UNCHANGED <<sent, backend, pc, errno, out, rtable, sockq, rx, pre, faults, hist>>

(************************ replace, delete, get (netlink) *******************)
\* the return of an operation whose sstp_route_talk returned len with session c
Complete(cl, c, len, eno, resolve, env) ==
    LET d == IF cl.op = "get" THEN sstp_route_get_decode(c, len, out, resolve)
             ELSE [ret |-> sstp_route_result(len), route |-> out]
    IN  /\ ctx' = c
        /\ errno' = eno
        /\ out' = d.route
        /\ pc' = "idle"
        /\ call' = [cl EXCEPT !.ret = d.ret, !.len = len, !.done = TRUE]
        /\ hist' = IF env = "real"
                   THEN Append(hist, [op |-> cl.op, arg |-> cl.arg, ret |-> d.ret,
                                      errno |-> eno, pre |-> pre',
                                      post |-> rtable'])
                   ELSE hist

\* sstp_route_talk up to the first recv: send(ctx->sock, data, size, 0) returns
\* snd ("full": size, "short": less, "fail": -1); the kernel handles a request
\* that reached it whole and queues its answer before send returns
Talk(op, arg, c, size, snd, replies, env) ==
    /\ pre' = rtable
    /\ rx' = NoRx
    /\ sent' = Append(sent, nlmsg_seq(c.buf))
    /\ IF snd = "full"
       THEN /\ rtable' = KernelRequest(rtable, c.buf).table
            /\ sockq' = sockq \o replies
            /\ ctx' = [c EXCEPT !.len = 0]
            /\ pc' = "recv"
            /\ call' = Call(op, arg, 0, 0, FALSE)
            /\ errno' = 0
            /\ UNCHANGED <<out, faults, hist>>
       ELSE /\ rtable' = rtable
            /\ sockq' = sockq
            /\ faults' = faults + 1
            /\ Complete(Call(op, arg, 0, 0, FALSE), c,
                        IF snd = "short" THEN size - 1 ELSE -1,
                        IF snd = "short" THEN 0 ELSE EIO, FALSE, env)
    /\ UNCHANGED <<backend, handle, fdt, uaf>>

Ready == backend = "netlink" /\ handle = "live" /\ pc = "idle" /\ ctx.seq < MaxSeq

\* what send may return: it sends all when the run has had its disturbances
Sends(env) ==
    IF env = "sim" /\ faults < MaxFaults THEN {"full", "short", "fail"} ELSE {"full"}

sstp_route_replace(r, snd, env) ==
    /\ Ready
    /\ LET c == sstp_route_newmsg(ctx, r, RTM_NEWROUTE, ReplaceFlags)
       IN  \E replies \in KernelReplies(rtable, c.buf, env) :
              Talk("replace", r, c, nlmsg_len(c.buf), snd, replies, env)

sstp_route_delete(r, snd, env) ==
    /\ Ready
    /\ LET c == sstp_route_newmsg(ctx, r, RTM_DELROUTE, 0)
       IN  \E replies \in KernelReplies(rtable, c.buf, env) :
              Talk("delete", r, c, nlmsg_len(c.buf), snd, replies, env)

sstp_route_get(dst, snd, env) ==
    /\ Ready
    /\ LET c == sstp_route_get_newmsg(ctx, dst)
       IN  \E replies \in KernelReplies(rtable, c.buf, env) :
              Talk("get", DstRoute(dst), c, nlmsg_len(c.buf), snd, replies, env)

\* what recv may do: deliver the next datagram, be interrupted by a signal
\* ("eintr"), time out ("eagain": only on a socket given a receive timeout),
\* fail for good ("fail") or report end of file ("eof")
Ios(env) ==
    IF env # "sim" THEN {"dgram"}
    ELSE IF faults < MaxFaults THEN {"dgram", "eintr", "eagain", "fail", "eof"}
    ELSE {"dgram", "eintr"}

\* one pass of the loop of sstp_route_recv and, when it returns, the rest of the
\* operation that called sstp_route_talk
RecvStep(io, resolve, env) ==
    /\ pc = "recv"
    /\ io = "dgram" => sockq # << >>
    /\ LET d   == IF io = "dgram" THEN Head(sockq) ELSE [bytes |-> << >>, meta |-> NoMeta]
           len == IF io = "dgram" THEN RecvLen(ctx, d.bytes)
                  ELSE IF io = "eof" THEN 0 ELSE -1
           eno == CASE io = "eintr" -> EINTR [] io = "eagain" -> EAGAIN
                    [] io = "fail" -> EIO [] OTHER -> errno
           c0  == IF io = "dgram" THEN [ctx EXCEPT !.buf = RecvBuf(ctx, d.bytes)]
                  ELSE ctx
           p   == sstp_route_recv_pass(c0, len, eno, errno)
       IN  /\ sockq' = IF io = "dgram" THEN Tail(sockq) ELSE sockq
           /\ rx' = Rx(io, d.meta, p.more, p.ret, resolve)
           /\ rtable' = rtable
           /\ pre' = pre
           /\ faults' = IF io \in {"eagain", "fail", "eof"} THEN faults + 1 ELSE faults
           /\ IF p.more
              THEN /\ ctx' = p.c
                   /\ errno' = p.errno
                   /\ UNCHANGED <<pc, call, out, hist>>
              ELSE Complete(call, p.c, p.ret, p.errno, resolve, env)
    /\ UNCHANGED <<sent, backend, handle, fdt, uaf>>

\* a datagram that answers no request of this session is queued before the next
\* request is sent: a late answer (how = "seq": this pid, a seq no request will
\* carry again), or a message for another socket (how = "pid": another pid, the
\* seq of the next request)
StrayKinds == {<<"error", "seq">>, <<"error", "pid">>, <<"ack", "seq">>,
               <<"route", "pid">>, <<"big", "pid">>}

\* a message larger than the buffer of the session
BigFrame(seq, pid) ==
    [bytes |-> NlhBytes(NLMSG_LENGTH(BUFSZ), RTM_NEWROUTE, 0, seq, pid) \o Zeros(BUFSZ),
     meta  |-> Meta("stray", RTM_NEWROUTE, seq, pid, 0, FALSE, << >>)]

StrayFrame(kind, how) ==
    LET seq == IF how = "seq" THEN 0 ELSE ctx.seq + 1
        pid == IF how = "seq" THEN getpid ELSE 0
        req == NlhBytes(NLMSG_LENGTH(SIZEOF_RTMSG), RTM_DELROUTE,
                        NLM_F_REQUEST + NLM_F_ACK, seq, pid)
    IN  CASE kind = "error" -> ErrorFrame("stray", seq, pid, ESRCH, req)
          [] kind = "ack" -> ErrorFrame("stray", seq, pid, 0, req)
          [] kind = "big" -> BigFrame(seq, pid)
          [] OTHER -> RouteFrame("stray", seq, pid, KR(RB), LinuxOrder(KR(RB)), FALSE)

Stray(kind, how) ==
    /\ Ready
    /\ faults < MaxFaults
    /\ faults' = faults + 1
    /\ sockq' = Append(sockq, StrayFrame(kind, how))
    /\ UNCHANGED <<sent, backend, handle, ctx, fdt, uaf, pc, call, errno, out, rtable, rx,
                   pre, hist>>

Next ==
    \/ \E nomem \in BOOLEAN, res \in SocketResults : NlInit(nomem, res)
    \/ \E stale \in FreedReads : NlDone(stale)
    \/ \E r \in SimRoutes, snd \in Sends("sim") : sstp_route_replace(r, snd, "sim")
    \/ \E r \in SimRoutes, snd \in Sends("sim") : sstp_route_delete(r, snd, "sim")
    \/ \E d \in Dsts, snd \in Sends("sim") : sstp_route_get(d, snd, "sim")
    \/ \E io \in Ios("sim") : RecvStep(io, TRUE, "sim")
    \/ \E k \in StrayKinds : Stray(k[1], k[2])

Spec == Init /\ [][Next]_vars

(************************** the shell fallback *****************************)
\* the route specification "ip route" prints and reads for a route
IpCmd(r) ==
    CASE KR(r) = KR(RA) -> "10.0.0.1 via 10.0.0.3 dev eth0 src 10.0.0.2"
      [] KR(r) = KR(RA2) -> "10.0.0.1 via 10.0.0.4 dev eth0 src 10.0.0.2"
      [] OTHER -> "2001:db8::1 dev ppp0"

\* the route a specification describes, as the ip tool parses it
IpParse(text) == KR(CHOOSE r \in Routes : IpCmd(r) = text)

\* sstp_ipaddr: the destination as text (inet_ntop), "" when it has none
sstp_ipaddr(dst) ==
    CASE dst.sa_family = AF_INET /\ dst.addr = Addr4(1) -> "10.0.0.1"
      [] dst.sa_family = AF_INET6 /\ dst.addr = Addr6(1) -> "2001:db8::1"
      [] OTHER -> ""

\* the destination the ip tool reads from the text of an address
IpDst(text) ==
    IF text = "10.0.0.1" THEN KR(DstRoute(SockAddr(AF_INET, Addr4(1))))
    ELSE KR(DstRoute(SockAddr(AF_INET6, Addr6(1))))

\* a caller's route in the shell build: only ipcmd
ShellRoute(r) == [UnsetRoute EXCEPT !.ipcmd = IpCmd(r)]

\* the values a function that ends without a return statement may give its
\* caller (sstp_route_replace and sstp_route_delete of the fallback, after pclose)
NoReturnValues == {-1, 0, 512}

\* sstp_route_replace / sstp_route_delete of the fallback: -1 when popen fails,
\* otherwise whatever the missing return leaves (any)
sh_route_result(popen_ok, any) == IF ~popen_ok THEN -1 ELSE any

ShReady == backend = "shell" /\ Len(hist) < MaxSeq

\* "ip route <verb> <ipcmd>" run through popen; the tool applies the change
ShModify(op, type, flags, r, popen_ok, any) ==
    /\ ShReady
    /\ LET k == KernelApply(rtable, type, flags, IpParse(r.ipcmd))
       IN  /\ rtable' = IF popen_ok THEN k.table ELSE rtable
           /\ pre' = rtable
           /\ call' = Call(op, r, sh_route_result(popen_ok, any), 0, TRUE)
           /\ hist' = Append(hist, [op |-> op, arg |-> r, ret |-> call'.ret,
                                    errno |-> errno, pre |-> rtable,
                                    post |-> rtable'])
    /\ UNCHANGED <<sent, backend, handle, ctx, fdt, uaf, pc, errno, out, sockq, rx, faults>>

sh_route_replace(r, any) ==
    ShModify("replace", RTM_NEWROUTE, ReplaceFlags, r, TRUE, any)

sh_route_delete(r, any) ==
    ShModify("delete", RTM_DELROUTE, 0, r, TRUE, any)

\* sstp_route_get of the fallback: the first line "ip route get <ip>" prints
\* becomes route->ipcmd; no line, or no text for the address, is an error
sh_route_get(dst) ==
    /\ ShReady
    /\ LET ip   == sstp_ipaddr(dst)
           k    == KernelApply(rtable, RTM_GETROUTE, NLM_F_REQUEST, IpDst(ip))
           line == IF ip # "" /\ k.code = 0
                   THEN IpCmd(CHOOSE r \in Routes : KR(r) = k.entry) ELSE ""
       IN  /\ out' = IF line # "" THEN [out EXCEPT !.ipcmd = line] ELSE out
           /\ call' = Call("get", DstRoute(dst), IF line # "" THEN 0 ELSE -1, 0, TRUE)
           /\ pre' = rtable
           /\ hist' = Append(hist, [op |-> "get", arg |-> DstRoute(dst),
                                    ret |-> call'.ret, errno |-> errno,
                                    pre |-> rtable, post |-> rtable])
    /\ UNCHANGED <<sent, backend, handle, ctx, fdt, uaf, pc, errno, rtable, sockq, rx, faults>>

\* sstp_route_init and sstp_route_done of the fallback: no private context
sh_route_init ==
    /\ backend = "shell" /\ call.op = "none"
    /\ call' = Call("init", UnsetRoute, 0, 0, TRUE)
    /\ UNCHANGED <<sent, backend, handle, ctx, fdt, uaf, pc, errno, out, rtable, sockq, rx,
                   pre, faults, hist>>

sh_route_done ==
    /\ backend = "shell" /\ call.op # "done"
    /\ call' = Call("done", UnsetRoute, 0, 0, TRUE)
    /\ UNCHANGED <<sent, backend, handle, ctx, fdt, uaf, pc, errno, out, rtable, sockq, rx,
                   pre, faults, hist>>

(******************** a faithful kernel, either backend ********************)
InitKernel == backend \in {"netlink", "shell"} /\ InitCommon

NextKernel ==
    \/ \E res \in SocketResults \ {-1} : NlInit(FALSE, res)
    \/ \E stale \in FreedReads : NlDone(stale)
    \/ \E r \in Routes : sstp_route_replace(r, "full", "real")
    \/ \E r \in Routes : sstp_route_delete(r, "full", "real")
    \/ \E d \in Dsts : sstp_route_get(d, "full", "real")
    \/ RecvStep("dgram", TRUE, "real")
    \/ sh_route_init
    \/ sh_route_done
    \/ \E r \in Routes, any \in NoReturnValues : sh_route_replace(ShellRoute(r), any)
    \/ \E r \in Routes, any \in NoReturnValues : sh_route_delete(ShellRoute(r), any)
    \/ \E d \in Dsts : sh_route_get(d)

SpecKernel == InitKernel /\ [][NextKernel]_vars

(*************** one get, answered with any attribute order ****************)
\* the state after a successful sstp_route_init
LiveCtx == [sock |-> 3, seq |-> 0, len |-> 0, buf |-> ZeroBuf]
LiveFd == [fd |-> 3, open |-> TRUE, closes |-> 0, other |-> 0]

\* a route the caller's variable holds from a get made before
PriorRoute ==
    [Route(AF_INET, Addr4(9), NoAddr, NoAddr, 3, Have(1, 0, 0, 1))
        EXCEPT !.ifname = "ppp0"]

InitGet ==
    /\ backend = "netlink"
    /\ handle = "live" /\ ctx = LiveCtx /\ fdt = LiveFd
    /\ uaf = FALSE /\ pc = "idle" /\ errno = 0
    /\ out \in {UnsetRoute, PriorRoute}
    /\ call = Call("init", UnsetRoute, 0, 0, TRUE)
    /\ rtable = {KR(RA), KR(RB)}
    /\ sockq = << >> /\ rx = NoRx /\ pre = {} /\ faults = 0 /\ hist = << >>
    /\ sent = << >>

GetDsts == Dsts \cup {SockAddr(AF_INET, Addr4(9))}

NextGet ==
    \/ \E d \in GetDsts, snd \in Sends("sim") :
          ctx.seq = 0 /\ sstp_route_get(d, snd, "any")
    \/ \E io \in Ios("sim"), resolve \in BOOLEAN : RecvStep(io, resolve, "any")

SpecGet == InitGet /\ [][NextGet]_vars

(************************* the message builder alone ***********************)
\* every valid route: either family, any presence flags, every field filled
BuildRoutes ==
    {Route(fam, Addr(fam, 1), Addr(fam, 2), Addr(fam, 3), 2, Have(d, s, g, o)) :
        fam \in {AF_INET, AF_INET6}, d \in {0, 1}, s \in {0, 1}, g \in {0, 1},
        o \in {0, 1}}

InitBuild ==
    /\ backend = "netlink"
    /\ handle = "live" /\ fdt = LiveFd
    /\ \E n \in 0 .. MaxSeq : /\ ctx = [LiveCtx EXCEPT !.seq = n]
                              /\ sent = [k \in 1 .. n |-> k]
    /\ uaf = FALSE /\ pc = "idle" /\ errno = 0 /\ out = UnsetRoute
    /\ \E r \in BuildRoutes : call = Call("none", r, 0, 0, FALSE)
    /\ rtable = {} /\ sockq = << >> /\ rx = NoRx /\ pre = {} /\ faults = 0
    /\ hist = << >>

\* the session after the builder has run for operation op on route call.arg
Build(op, c) ==
    /\ pc = "idle" /\ call.op = "none"
    /\ ctx' = c
    /\ call' = [call EXCEPT !.op = op, !.len = nlmsg_len(c.buf), !.done = TRUE]
    /\ pc' = "built"
    /\ sent' = Append(sent, nlmsg_seq(c.buf))
    /\ UNCHANGED <<backend, handle, fdt, uaf, errno, out, rtable, sockq, rx, pre,
                   faults, hist>>

NextBuild ==
    \/ Build("replace", sstp_route_newmsg(ctx, call.arg, RTM_NEWROUTE, ReplaceFlags))
    \/ Build("delete", sstp_route_newmsg(ctx, call.arg, RTM_DELROUTE, 0))
    \/ Build("get", sstp_route_get_newmsg(ctx, SockAddr(call.arg.family, call.arg.dst)))

SpecBuild == InitBuild /\ [][NextBuild]_vars

(************************ properties of the session ************************)
\* the last pass of the receive loop read a datagram
ReadDgram == rx.io = "dgram"
\* an operation has returned to its caller
Returned == pc = "idle" /\ call.done /\ call.op \in {"replace", "delete", "get"}
\* the datagram read last is the kernel's answer to the request sent last
ReadAnswer == ReadDgram /\ rx.meta.role \in {"reply", "part", "done"} /\ rx.meta.seq = ctx.seq

\* C1: a message read whose sequence number or process identifier differs from
\* the request just sent is discarded whatever its type: after the pass that
\* read it the receive loop reads on, it does not return.
C1_MismatchDiscarded ==
    (ReadDgram /\ ~Correlated(ctx.buf, ctx)) => rx.more

\* C2: a correlated message flagged multi-part and not of type done does not
\* end the exchange (the loop reads on for the done message), and a correlated
\* message without the multi-part flag ends it at once.
C2_MultipartAccumulated ==
    (ReadDgram /\ Correlated(ctx.buf, ctx) /\ ~IsKernelError(ctx.buf)) =>
        IF HasFlag(nlmsg_flags(ctx.buf), NLM_F_MULTI)
        THEN nlmsg_type(ctx.buf) # NLMSG_DONE => rx.more
        ELSE ~rx.more

\* C3: when the answer to the request is an error frame with a non-zero code
\* the exchange fails, the operation returns -1 with errno set to that code and
\* get leaves the caller's route as it was; when the code is zero (an
\* acknowledgement) the exchange succeeds and replace and delete return 0.
C3_KernelErrorFails ==
    [][(/\ pc = "recv" /\ pc' = "idle"
        /\ rx'.io = "dgram" /\ rx'.meta.role = "reply"
        /\ rx'.meta.seq = ctx'.seq /\ rx'.meta.type = NLMSG_ERROR)
       => IF rx'.meta.code # 0
          THEN /\ call'.len = -1 /\ call'.ret = -1
               /\ errno' = rx'.meta.code
               /\ out' = out
          ELSE /\ call'.len >= 0
               /\ call'.op \in {"replace", "delete"} => call'.ret = 0]_vars

\* C3 happens: a delete was answered with a non-zero error code and returned -1
C3_Witness ==
    /\ Returned /\ call.op = "delete" /\ ReadAnswer
    /\ rx.meta.type = NLMSG_ERROR /\ rx.meta.code = ESRCH
    /\ call.ret = -1 /\ errno = ESRCH

\* C4: done is safe in every handle state: it never reads or frees the memory
\* of a session released before, and closes no descriptor but the session's,
\* and that one at most once.
C4_DoneIdempotent == ~uaf /\ fdt.other = 0 /\ fdt.closes <= 1

\* C5: the socket of a session is open while the session lives and closed,
\* exactly once, when done has released it, whatever descriptor socket()
\* returned (sessions whose memory was misused afterwards are left aside).
C5_ClosedExactlyOnce ==
    ~uaf => /\ handle = "live" => (fdt.open /\ fdt.closes = 0)
            /\ handle = "freed" => (~fdt.open /\ fdt.closes = 1)

(************************ properties with a faithful kernel ****************)
\* the entry of hist at i is operation op of the netlink backend
NlOp(i, op) == backend = "netlink" /\ i \in 1 .. Len(hist) /\ hist[i].op = op

\* C6: with a faithful kernel, a replace of a route and the delete of the same
\* route that follows it both return 0, and a delete of a route the table has
\* no match for returns -1 with errno ESRCH and leaves the table as it was.
C6_ReplaceThenDelete ==
    \A i \in 1 .. Len(hist) :
        /\ (NlOp(i, "replace") /\ NlOp(i + 1, "delete")
            /\ hist[i + 1].arg = hist[i].arg)
           => (hist[i].ret = 0 /\ hist[i + 1].ret = 0
               /\ KR(hist[i].arg) \in hist[i].post
               /\ KR(hist[i].arg) \notin hist[i + 1].post)
        /\ (NlOp(i, "delete") /\ Matching(hist[i].pre, KR(hist[i].arg)) = {})
           => (hist[i].ret = -1 /\ hist[i].errno = ESRCH
               /\ hist[i].post = hist[i].pre)

\* C6 happens: a route the table did not hold was installed and then deleted
C6_Witness ==
    /\ NlOp(1, "replace") /\ NlOp(2, "delete") /\ hist[2].arg = hist[1].arg
    /\ KR(hist[1].arg) \notin hist[1].pre
    /\ hist[1].ret = 0 /\ hist[2].ret = 0

\* C7: replace returns 0 and installs the route whether or not the table holds
\* a route for its destination, and a second replace of the same route returns
\* 0 and leaves the table as the first left it.
C7_ReplaceIdempotent ==
    \A i \in 1 .. Len(hist) :
        /\ NlOp(i, "replace")
           => (hist[i].ret = 0 /\ KR(hist[i].arg) \in hist[i].post)
        /\ (NlOp(i, "replace") /\ NlOp(i + 1, "replace")
            /\ hist[i + 1].arg = hist[i].arg)
           => (hist[i + 1].ret = 0 /\ hist[i + 1].post = hist[i].post)

\* C7 happens: the same route was replaced twice in a row
C7_Witness ==
    /\ NlOp(1, "replace") /\ NlOp(2, "replace") /\ hist[2].arg = hist[1].arg
    /\ hist[2].ret = 0 /\ hist[2].post = hist[1].post

\* what the netlink backend returns for route r and command cmd on table t: the
\* request is built, the kernel answers, the receive loop reads the answer
NetlinkOutcome(t, r, cmd, flags) ==
    LET c     == sstp_route_newmsg(LiveCtx, r, cmd, flags)
        reply == (CHOOSE q \in KernelReplies(t, c.buf, "real") : TRUE)[1]
        c0    == [c EXCEPT !.len = 0]
        c1    == [c0 EXCEPT !.buf = RecvBuf(c0, reply.bytes)]
        p     == sstp_route_recv_pass(c1, RecvLen(c0, reply.bytes), 0, 0)
    IN  sstp_route_result(p.ret)

\* C10: replace and delete of the shell fallback return 0 exactly when the
\* netlink backend returns 0 for the same route on the same routing table.
C10_ShellAsNetlink ==
    backend = "shell" =>
        \A i \in 1 .. Len(hist) :
            LET h == hist[i]
                r == CHOOSE x \in Routes : IpCmd(x) = h.arg.ipcmd
            IN  /\ h.op = "replace" =>
                     (h.ret = 0 <=>
                        NetlinkOutcome(h.pre, r, RTM_NEWROUTE, ReplaceFlags) = 0)
                /\ h.op = "delete" =>
                     (h.ret = 0 <=> NetlinkOutcome(h.pre, r, RTM_DELROUTE, 0) = 0)

(************************ properties of the builder ************************)
\* the bytes an attribute with an n-byte payload takes in a message
PaddedSize(n) == ((SIZEOF_RTATTR + n + 3) \div 4) * 4

\* the attributes a request for route r carries: one per presence flag set, in
\* the order the builder appends them
WantAttrs(r) ==
    (IF r.have.dst = 1 THEN <<[type |-> RTA_DST, data |-> r.dst]>> ELSE << >>)
    \o (IF r.have.src = 1 THEN <<[type |-> RTA_PREFSRC, data |-> r.src]>> ELSE << >>)
    \o (IF r.have.gwy = 1 THEN <<[type |-> RTA_GATEWAY, data |-> r.gwy]>> ELSE << >>)
    \o (IF r.have.oif = 1 THEN <<[type |-> RTA_OIF, data |-> LE32(r.oif)]>> ELSE << >>)

RECURSIVE SumPadded(_, _)
SumPadded(as, i) ==
    IF i > Len(as) THEN 0 ELSE PaddedSize(Len(as[i].data)) + SumPadded(as, i + 1)

\* C8: the message built for a route (for get: for its destination alone) has
\* nlmsg_len = header + body + the padded sizes of its attributes, and walking
\* its attributes yields one attribute per presence flag set, with the bytes
\* of the route's field, and none for a flag not set.
C8_BuilderRoundTrip ==
    pc = "built" =>
        LET want == IF call.op = "get"
                    THEN WantAttrs(DstRoute(SockAddr(call.arg.family, call.arg.dst)))
                    ELSE WantAttrs(call.arg)
            got  == MsgAttrs(ctx.buf)
        IN  /\ nlmsg_len(ctx.buf) = NLMSG_HDRLEN + SIZEOF_RTMSG + SumPadded(want, 1)
            /\ call.len = nlmsg_len(ctx.buf)
            /\ Len(got) = Len(want)
            /\ \A i \in 1 .. Len(want) :
                  got[i].type = want[i].type /\ got[i].data = want[i].data

\* C8 happens: an IPv6 replace request with all four attributes was built
C8_Witness ==
    /\ pc = "built" /\ call.op = "replace" /\ call.arg.family = AF_INET6
    /\ call.arg.have = Have(1, 1, 1, 1)
    /\ Len(MsgAttrs(ctx.buf)) = 4
    /\ nlmsg_len(ctx.buf) = 28 + 20 + 20 + 20 + 8

(************************** properties of get ******************************)
\* the table entry get was asked about
Asked == CHOOSE e \in rtable : e.family = call.arg.family /\ e.dst = call.arg.dst
AllFour == {RTA_DST, RTA_GATEWAY, RTA_PREFSRC, RTA_OIF}

\* get has returned after reading a route message that answers its request and
\* carries all four attributes
GotAllFour ==
    /\ Returned /\ call.op = "get" /\ ReadAnswer
    /\ rx.meta.type = RTM_NEWROUTE
    /\ rtm_family(ctx.buf) = AF_INET
    /\ AllFour \subseteq {rx.meta.order[i] : i \in 1 .. Len(rx.meta.order)}

\* C9: a get answered by an IPv4 route message with destination, gateway,
\* preferred source and output interface, in any order and with or without an
\* attribute of a type it does not know among them, returns 0 with all four
\* fields set to the payloads and all four presence flags set; when the
\* interface name cannot be resolved ifname is empty and have.oif is still set.
C9_GetDecodesAllFour ==
    GotAllFour =>
        /\ call.ret = 0
        /\ out.family = AF_INET /\ out.rt_blen = 4
        /\ out.dst = Asked.dst /\ out.gwy = Asked.gwy /\ out.src = Asked.src
        /\ out.oif = Asked.oif
        /\ out.have = Have(1, 1, 1, 1)
        /\ out.ifname = IF rx.named THEN "eth0" ELSE ""

\* C9 happens: the answer came with an unknown attribute between the known ones,
\* in an order that is not Linux's, and the interface name did not resolve
C9_Witness ==
    /\ GotAllFour
    /\ rx.meta.order = <<RTA_GATEWAY, RTA_OIF, RTA_TABLE, RTA_PREFSRC, RTA_DST>>
    /\ ~rx.named /\ out.ifname = "" /\ out.have.oif = 1 /\ call.ret = 0

(********************* properties of send and receive **********************)
\* an operation has returned without a single pass of the receive loop: send
\* did not return the size of the request
SendFailed == Returned /\ rx = NoRx

\* C11: when send returns anything but the size of the request (-1, or fewer
\* bytes), no receive is attempted and replace, delete and get return -1.
C11_SendFailureFails ==
    SendFailed => (call.ret = -1 /\ call.len < 0)

\* C12: a read that fails with EINTR or EAGAIN never ends the exchange, the loop
\* reads again whatever the buffer holds; a read that fails otherwise, or
\* returns 0, ends the exchange at once with -1.
C12_TransientRetried ==
    [][pc = "recv" =>
         /\ rx'.io \in {"eintr", "eagain"} =>
               (rx'.more /\ pc' = "recv" /\ ~call'.done /\ ctx' = ctx)
         /\ rx'.io \in {"fail", "eof"} =>
               (~rx'.more /\ pc' = "idle" /\ call'.done /\ call'.len = -1
                /\ call'.ret = -1)]_vars

\* C12 happens: the read was interrupted while the buffer held a message that
\* had been discarded, and the loop went on
C12_Witness ==
    /\ rx.io = "eintr" /\ rx.more /\ pc = "recv"
    /\ NLMSG_OK(ctx.buf, Len(ctx.buf)) /\ ~Correlated(ctx.buf, ctx)

\* C13: the exchange returns from the receive loop only after a fatal read, a
\* message that fails validation or an error frame with a non-zero code (the
\* pass returned -1), or a message that answers the request and is terminal:
\* of type done, or without the multi-part flag.
C13_ReturnsOnTerminal ==
    (Returned /\ rx # NoRx) =>
        \/ rx.io \in {"fail", "eof"}
        \/ ReadDgram /\ rx.ret = -1
        \/ ReadDgram /\ Correlated(ctx.buf, ctx) /\ Terminal(ctx.buf)

(******************** properties of the sequence counter *******************)
\* C14: the counter is 0 after init and each request built, for replace, delete
\* or get and whether or not the operation fails afterwards, carries the
\* counter incremented by one: the k-th request of a session carries k.
C14_SeqCounts ==
    /\ Len(sent) = ctx.seq
    /\ \A k \in 1 .. Len(sent) : sent[k] = k

\* C14 happens: the second request of a session was a get that failed
C14_Witness ==
    /\ Returned /\ call.op = "get" /\ call.ret = -1
    /\ ctx.seq = 2 /\ sent = <<1, 2>>

(********************* properties of a session reused **********************)
\* the error code the kernel gave the request of the operation called last
KernelCode ==
    KernelApply(pre,
                CASE call.op = "replace" -> RTM_NEWROUTE
                  [] call.op = "delete" -> RTM_DELROUTE
                  [] OTHER -> RTM_GETROUTE,
                IF call.op = "replace" THEN NewmsgFlags(ReplaceFlags)
                ELSE NewmsgFlags(0),
                KR(call.arg)).code

\* C15: the socket of a live session stays open whatever failed before, and an
\* operation whose request the kernel accepted and whose last read delivered a
\* datagram from the kernel returns 0, even when that datagram is the late
\* answer to an earlier operation that failed before reading it.
C15_ReusableAfterFailure ==
    /\ handle = "live" => fdt.open
    /\ (Returned /\ ReadDgram /\ rx.meta.role # "stray" /\ KernelCode = 0)
       => call.ret = 0

(******************* properties of get on odd responses ********************)
\* what is left of the attribute area when the walk RTA_OK / RTA_NEXT stops
RECURSIVE AttrLeft(_, _, _)
AttrLeft(b, o, rtl) ==
    IF RTA_OK(b, o, rtl)
    THEN AttrLeft(b, RTA_NEXT_off(b, o), RTA_NEXT_len(b, o, rtl))
    ELSE rtl

\* the attribute area of the message in b has an attribute whose rta_len is
\* smaller than the header or larger than what is left
MalformedAttrs(b) == AttrLeft(b, RTM_RTA, RTM_PAYLOAD(b)) # 0

\* get has returned after reading a route message that answers its request
GotRoute ==
    /\ Returned /\ call.op = "get" /\ ReadAnswer
    /\ nlmsg_type(ctx.buf) = RTM_NEWROUTE
    /\ rtm_family(ctx.buf) \in {AF_INET, AF_INET6}

\* C16: a get whose response has malformed attribute framing returns -1, not 0
\* with the route filled from the attributes before the malformed one.
C16_MalformedAttrsFail ==
    (GotRoute /\ MalformedAttrs(ctx.buf)) => call.ret = -1

\* C17: in a route get returned, rt_blen is 4 for AF_INET and 16 for AF_INET6
\* and every address written into it is rt_blen bytes long, the interface
\* index 4 bytes, whatever the payload length of the well-framed attribute.
C17_WidthsMatch ==
    (GotRoute /\ call.ret = 0) =>
        /\ out.rt_blen = (IF out.family = AF_INET6 THEN 16 ELSE 4)
        /\ out.have.dst = 1 => Len(out.dst) = out.rt_blen
        /\ out.have.src = 1 => Len(out.src) = out.rt_blen
        /\ out.have.gwy = 1 => Len(out.gwy) = out.rt_blen
        /\ \A i \in 1 .. Len(MsgAttrs(ctx.buf)) :
              MsgAttrs(ctx.buf)[i].type = RTA_OIF
                 => Len(MsgAttrs(ctx.buf)[i].data) = SIZEOF_OIF

(********************* properties of the request body **********************)
\* C18: in a request built for replace or delete, rtm_scope is universe
\* exactly when the route has a gateway and link otherwise, rtm_protocol is
\* boot and rtm_type unicast for replace and both are zero for delete, and
\* rtm_dst_len is rt_blen * 8 when the route has a destination; a get request
\* has rtm_dst_len 32 for AF_INET and 128 for AF_INET6 and one attribute, the
\* destination.
C18_BodyFields ==
    pc = "built" =>
        LET b == ctx.buf
            r == call.arg
        IN  IF call.op = "get"
            THEN /\ rtm_dst_len(b) = (IF r.family = AF_INET6 THEN 128 ELSE 32)
                 /\ rtm_family(b) = r.family
                 /\ Len(MsgAttrs(b)) = 1
                 /\ MsgAttrs(b)[1].type = RTA_DST
                 /\ MsgAttrs(b)[1].data = r.dst
            ELSE /\ rtm_scope(b) = (IF r.have.gwy = 1 THEN RT_SCOPE_UNIVERSE
                                                      ELSE RT_SCOPE_LINK)
                 /\ rtm_protocol(b) = (IF call.op = "delete" THEN 0 ELSE RTPROT_BOOT)
                 /\ rtm_type(b) = (IF call.op = "delete" THEN 0 ELSE RTN_UNICAST)
                 /\ r.have.dst = 1 => rtm_dst_len(b) = r.rt_blen * 8

\* C18 happens: a delete request was built for an IPv6 route with a
\* destination and no gateway
C18_Witness ==
    /\ pc = "built" /\ call.op = "delete"
    /\ call.arg.family = AF_INET6 /\ call.arg.have = Have(1, 0, 0, 1)
    /\ rtm_scope(ctx.buf) = RT_SCOPE_LINK /\ rtm_protocol(ctx.buf) = 0
    /\ rtm_dst_len(ctx.buf) = 128

(************************ properties of the buffer *************************)
\* C19: every recv of the loop is given an offset ctx->len between 0 and the
\* size of the buffer (and as size what is left after it), no byte is ever
\* stored beyond buf[1023] whatever arrives, and the request built declares
\* a length that fits the buffer.
C19_BufferBounds ==
    /\ Len(ctx.buf) <= BUFSZ
    /\ pc = "recv" => (0 <= ctx.len /\ ctx.len <= BUFSZ)
    /\ (pc = "built" \/ (pc = "recv" /\ rx = NoRx)) =>
          (nlmsg_len(ctx.buf) <= BUFSZ /\ nlmsg_len(ctx.buf) = Len(ctx.buf))

\* C19 happens: a datagram larger than the buffer was read, it filled the
\* buffer and failed validation
C19_Witness ==
    /\ Returned /\ ReadDgram /\ rx.ret = -1
    /\ Len(ctx.buf) = BUFSZ /\ nlmsg_len(ctx.buf) > BUFSZ

(******************* properties of the caller's route **********************)
\* C20: the caller's route changes only in a step in which get returns 0: a
\* get that returns -1, for a send or receive that failed, an error frame, a
\* response that fails validation or a family that is neither AF_INET nor
\* AF_INET6, leaves it exactly as it was.
C20_ErrorLeavesRoute ==
    [][out' # out =>
         (call'.op = "get" /\ call'.done /\ call'.ret = 0 /\ pc' = "idle")]_vars

\* C20 happens: get returned -1 on a response of another family and the route
\* the caller held from before is still there
C20_Witness ==
    /\ Returned /\ call.op = "get" /\ call.ret = -1 /\ ReadAnswer
    /\ nlmsg_type(ctx.buf) = RTM_NEWROUTE /\ rtm_family(ctx.buf) = AF_PACKET
    /\ out = PriorRoute

====
